---------------------------- MODULE Spec2Model ----------------------------
(***************************************************************************)
(* MockRTC step execution engine: the ten handler steps of                 *)
(* src/handling/handler-steps.ts run, one after the other, against one     *)
(* mock connection whose channels, tracks and lifecycle events are driven  *)
(* by the transport.                                                       *)
(***************************************************************************)
EXTENDS Integers, Sequences, FiniteSets, TLC

(***************************************************************************)
(* Bounds of the model.                                                    *)
(***************************************************************************)
MaxStreams == 2     \* channels and tracks opened on the connection
MaxData == 2        \* chunks arriving on the connection's streams

Undefined == "undefined"

\* the channels the transport may open: label and side
ChannelInputs ==
    { [label |-> "a", isLocal |-> FALSE], [label |-> "b", isLocal |-> FALSE],
      [label |-> "a", isLocal |-> TRUE] }

\* session descriptions: the offers an external connection may produce, and
\* the answer sources a peer-proxy definition may be built with; an answer
\* source maps an offer to its answer or throws
Offers == {"offer1", "offer2"}

Throws == "throws"

AnswerSources ==
    { [o \in Offers |-> IF o = "offer1" THEN "answer1" ELSE "answer2"],
      [o \in Offers |-> IF o = "offer1" THEN Throws ELSE "answer1"] }

(***************************************************************************)
(* Step definitions (handler-step-definitions).                            *)
(***************************************************************************)
\* the values of a message: string | Buffer
Text(s) == [string |-> s]
Buffer(bytes) == [buffer |-> bytes]

WaitForDurationStepDefinition(d) == [type |-> "wait-for-duration", durationMs |-> d]
WaitForChannelStepDefinition(l) == [type |-> "wait-for-channel", channelLabel |-> l]
WaitForMessageStepDefinition(l) == [type |-> "wait-for-message", channelLabel |-> l]
WaitForTrackStepDefinition == [type |-> "wait-for-track"]
WaitForMediaStepDefinition == [type |-> "wait-for-media"]
SendStepDefinition(l, m) == [type |-> "send-message", channelLabel |-> l, message |-> m]
CloseStepDefinition == [type |-> "close-connection"]
EchoStepDefinition == [type |-> "echo-channels"]
PeerProxyStepDefinition == [type |-> "peer-proxy"]
DynamicProxyStepDefinition == [type |-> "dynamic-proxy"]

ReadmeScript == << WaitForMessageStepDefinition(Undefined),
                   SendStepDefinition(Undefined, Text("Goodbye")) >>

Scripts ==
    { ReadmeScript,
      << WaitForChannelStepDefinition("a"), SendStepDefinition("b", Text("m")) >>,
      << WaitForChannelStepDefinition(Undefined), WaitForMessageStepDefinition("a") >>,
      << WaitForMessageStepDefinition("a"), WaitForMessageStepDefinition("a") >>,
      << WaitForTrackStepDefinition, WaitForMediaStepDefinition >>,
      << SendStepDefinition(Undefined, Text("m")), WaitForDurationStepDefinition(50) >>,
      << EchoStepDefinition, EchoStepDefinition >>,
      << PeerProxyStepDefinition, WaitForDurationStepDefinition(50) >>,
      << DynamicProxyStepDefinition, CloseStepDefinition >>,
      << CloseStepDefinition, PeerProxyStepDefinition >> }

PerpetualTypes == {"echo-channels", "peer-proxy", "dynamic-proxy"}

VARIABLES
    script,         \* the ordered steps attached to the connection
    wire,           \* the wire forms of the definitions, as the administration side got them
    steps,          \* the executors resolved from the wire forms
    buildError,     \* the error that ended the build of the script, or "none"
    session,        \* "idle", "running", "completed", "failed", "aborted"
    cur,            \* index of the step the runner is awaiting
    failedStep,     \* the step whose failure was reported to the caller, or 0
    stepState,      \* per step: the promise returned by handle()
    listeners,      \* the connection's listeners, per event
    channels,       \* connection.channels
    mediaTracks,    \* connection.mediaTracks
    closed,         \* the connection has closed
    timers,         \* steps with a pending setTimeout
    writes,         \* channel.write calls and their callbacks
    proxyPc,        \* per step: where a proxy step's handle() is suspended
    getAnswer,      \* the answer source of the peer-proxy definitions
    deserialized,   \* the peer-proxy steps were built by PeerProxyStep.deserialize
    asked,          \* per step: the offers its getAnswer was called with
    dispatch,       \* per step: its dispatch channel, requests sent and message in flight
    externalConnections, \* per step: its private externalConnections list
    rtcConnections, \* every RTCConnection object created so far
    disposed,       \* steps whose dispose() has run
    startInfo,      \* per step: the connection's collections when handle() was called
    lateCalls       \* steps one of whose listeners an event invoked after they settled

vars == << script, wire, steps, buildError, session, cur, failedStep, stepState, listeners, channels,
           mediaTracks, closed, timers, writes, proxyPc, getAnswer, deserialized,
           asked, dispatch, externalConnections, rtcConnections, disposed,
           startInfo, lateCalls >>

Events == {"channel-open", "remote-channel-open", "track-open",
           "remote-track-open", "connection-closed"}

Steps == DOMAIN script

(***************************************************************************)
(* Sequence helpers.                                                       *)
(***************************************************************************)
RemoveAt(s, i) == [j \in 1..(Len(s) - 1) |-> IF j < i THEN s[j] ELSE s[j + 1]]

Max(S) == CHOOSE x \in S : \A y \in S : y <= x

(***************************************************************************)
(* EventEmitter: removeListener removes the most recently added instance   *)
(* of the listener (a once() wrapper counts as its listener).              *)
(***************************************************************************)
Listener(n, fn, once) == [step |-> n, fn |-> fn, once |-> once]

removeListener(ls, n, fn) ==
    LET idx == {i \in DOMAIN ls : ls[i].step = n /\ ls[i].fn = fn}
    IN IF idx = {} THEN ls ELSE RemoveAt(ls, Max(idx))

(***************************************************************************)
(* Streams (DataChannelStream, MediaTrackStream): Node duplex streams.     *)
(* flowing is the readable state: "null" until a consumer is attached,     *)
(* "true" while flowing, "false" once paused.                              *)
(***************************************************************************)
NewStream(label, isLocal) ==
    [label |-> label, isLocal |-> isLocal, flowing |-> "null",
     listeners |-> << >>, pipes |-> << >>, buffered |-> 0, received |-> 0]

\* stream.once('data', l): adding a 'data' listener resumes unless paused
StreamOnceData(s, l) ==
    [s EXCEPT !.listeners = Append(@, l),
              !.flowing = IF @ = "false" THEN "false" ELSE "true"]

StreamRemoveData(s, n, fn) == [s EXCEPT !.listeners = removeListener(@, n, fn)]

StreamPause(s) == [s EXCEPT !.flowing = "false"]

\* stream.pipe(stream): attaches the pipe and resumes the stream
StreamPipe(s, n) == [s EXCEPT !.pipes = Append(@, n), !.flowing = "true"]

remoteChannels(chs) == {i \in DOMAIN chs : ~chs[i].isLocal}
remoteMediaTracks(trs) == {i \in DOMAIN trs : ~trs[i].isLocal}

(***************************************************************************)
(* The part of the state that listeners read and write, as one record.     *)
(***************************************************************************)
Heap ==
    [listeners |-> listeners, channels |-> channels, mediaTracks |-> mediaTracks,
     stepState |-> stepState, lateCalls |-> lateCalls]

SetHeap(h) ==
    /\ listeners' = h.listeners
    /\ channels' = h.channels
    /\ mediaTracks' = h.mediaTracks
    /\ stepState' = h.stepState
    /\ lateCalls' = h.lateCalls

\* resolve() / reject() of the promise of step n: settles it at most once
Resolve(h, n) ==
    IF h.stepState[n] = "pending" THEN [h EXCEPT !.stepState[n] = "resolved"] ELSE h

Reject(h, n) ==
    IF h.stepState[n] = "pending" THEN [h EXCEPT !.stepState[n] = "rejected"] ELSE h

On(h, ev, l) == [h EXCEPT !.listeners[ev] = Append(@, l)]

Off(h, ev, n, fn) == [h EXCEPT !.listeners[ev] = removeListener(@, n, fn)]

\* mutants: the label filter is ignored
WaitForChannelStep_matchesChannel_any(step, channel) == TRUE

SendStep_matchesChannel_any(step, channel) == TRUE

\* the three private matchesChannel methods
WaitForChannelStep_matchesChannel(step, channel) ==
    step.channelLabel = Undefined \/ step.channelLabel = channel.label

WaitForMessageStep_matchesChannel(step, channel) ==
    step.channelLabel = Undefined \/ step.channelLabel = channel.label

SendStep_matchesChannel(step, channel) ==
    step.channelLabel = Undefined \/ step.channelLabel = channel.label


(***************************************************************************)
(* The listeners the steps register.  n is the step, i the index of the    *)
(* channel or track the event is about.                                    *)
(***************************************************************************)

\* WaitForChannelStep.handle: channelOpened
channelOpened(h, n, i) ==
    IF WaitForChannelStep_matchesChannel(script[n], h.channels[i])
    THEN Resolve(Off(h, "remote-channel-open", n, "channelOpened"), n)
    ELSE h

\* mutant: the listeners on the channels are left in place
WaitForMessageStep_messageReceived_leak(h, n) ==
    LET h1 == Off(h, "channel-open", n, "listenForMessage")
        h2 == [h1 EXCEPT !.channels =
                  [i \in DOMAIN h1.channels |-> StreamPause(h1.channels[i])]]
    IN Resolve(h2, n)

\* WaitForMessageStep.handle: messageReceived
WaitForMessageStep_messageReceived(h, n) ==
    LET h1 == Off(h, "channel-open", n, "listenForMessage")
        h2 == [h1 EXCEPT !.channels =
                  [i \in DOMAIN h1.channels |->
                      StreamPause(StreamRemoveData(h1.channels[i], n, "messageReceived"))]]
    IN Resolve(h2, n)

\* WaitForMessageStep.handle: listenForMessage
listenForMessage(h, n, i) ==
    IF WaitForMessageStep_matchesChannel(script[n], h.channels[i])
    THEN [h EXCEPT !.channels[i] = StreamOnceData(@, Listener(n, "messageReceived", TRUE))]
    ELSE h

\* WaitForTrackStep.handle: () => resolve()
remoteTrackOpened(h, n) == Resolve(h, n)

\* WaitForMediaStep.handle: messageReceived
WaitForMediaStep_messageReceived(h, n) ==
    LET h1 == Off(h, "track-open", n, "listenForData")
        h2 == [h1 EXCEPT !.mediaTracks =
                  [i \in DOMAIN h1.mediaTracks |->
                      StreamPause(StreamRemoveData(h1.mediaTracks[i], n, "messageReceived"))]]
    IN Resolve(h2, n)

\* WaitForMediaStep.handle: listenForData
listenForData(h, n, i) ==
    [h EXCEPT !.mediaTracks[i] = StreamOnceData(@, Listener(n, "messageReceived", TRUE))]

\* EchoStep.handle: echoContent
echoContent(h, n, kind, i) ==
    IF kind = "channel"
    THEN [h EXCEPT !.channels[i] = StreamPipe(@, n)]
    ELSE [h EXCEPT !.mediaTracks[i] = StreamPipe(@, n)]

\* (resolve) => connection.on('connection-closed', resolve)
connectionClosedResolve(h, n) == Resolve(h, n)

(***************************************************************************)
(* Calling listener l about stream arg = [kind, idx].                      *)
(***************************************************************************)
Call(h, l, arg) ==
    CASE l.fn = "channelOpened" -> channelOpened(h, l.step, arg.idx)
      [] l.fn = "listenForMessage" -> listenForMessage(h, l.step, arg.idx)
      [] l.fn = "messageReceived" ->
            IF arg.kind = "channel"
            THEN WaitForMessageStep_messageReceived(h, l.step)
            ELSE WaitForMediaStep_messageReceived(h, l.step)
      [] l.fn = "remoteTrackOpened" -> remoteTrackOpened(h, l.step)
      [] l.fn = "listenForData" -> listenForData(h, l.step, arg.idx)
      [] l.fn = "echoContent" -> echoContent(h, l.step, arg.kind, arg.idx)
      [] l.fn = "resolve" -> connectionClosedResolve(h, l.step)

\* forEach over the streams idxs (in order) of a collection, calling fn of step n
RECURSIVE ForEach(_, _, _, _, _)
ForEach(h, n, fn, kind, idxs) ==
    IF idxs = {} THEN h
    ELSE LET i == CHOOSE x \in idxs : \A y \in idxs : x <= y
         IN ForEach(Call(h, Listener(n, fn, FALSE), [kind |-> kind, idx |-> i]),
                    n, fn, kind, idxs \ {i})

\* a once() wrapper removes itself before it calls its listener
RemoveOnce(h, t, l) ==
    IF ~l.once THEN h
    ELSE CASE t.kind = "connection" -> Off(h, t.ev, l.step, l.fn)
           [] t.kind = "channel" ->
                [h EXCEPT !.channels[t.idx] = StreamRemoveData(@, l.step, l.fn)]
           [] t.kind = "track" ->
                [h EXCEPT !.mediaTracks[t.idx] = StreamRemoveData(@, l.step, l.fn)]

NoteLate(h, l) ==
    IF h.stepState[l.step] # "pending"
    THEN [h EXCEPT !.lateCalls = @ \cup {l.step}]
    ELSE h

\* emit calls, in order, the listeners registered when the emit began
RECURSIVE CallAll(_, _, _, _)
CallAll(h, ls, t, arg) ==
    IF ls = << >> THEN h
    ELSE LET l == Head(ls)
         IN CallAll(Call(RemoveOnce(NoteLate(h, l), t, l), l, arg), Tail(ls), t, arg)

\* connection.emit(ev, stream)
Emit(h, ev, arg) ==
    CallAll(h, h.listeners[ev], [kind |-> "connection", ev |-> ev], arg)

\* stream.emit('data', chunk) on channel or track i
EmitData(h, kind, i) ==
    LET s == IF kind = "channel" THEN h.channels[i] ELSE h.mediaTracks[i]
    IN CallAll(h, s.listeners, [kind |-> kind, idx |-> i], [kind |-> kind, idx |-> i])

NoArg == [kind |-> "none", idx |-> 0]


(***************************************************************************)
(* handle(connection) of each step, up to its first suspension point.      *)
(* Each is called with the promise of step n pending.                      *)
(***************************************************************************)
Pending(n) == [Heap EXCEPT !.stepState[n] = "pending"]

AllChannels == DOMAIN channels
AllTracks == DOMAIN mediaTracks

WaitForDurationStep_handle(n) ==
    /\ timers' = timers \cup {n}
    /\ SetHeap(Pending(n))
    /\ UNCHANGED << closed, writes, proxyPc, asked, dispatch, externalConnections, rtcConnections >>

\* mutant: subscribes without looking at the channels that are already open
WaitForChannelStep_handle_subscribeOnly(n) ==
    /\ SetHeap(On(Pending(n), "remote-channel-open", Listener(n, "channelOpened", FALSE)))
    /\ UNCHANGED << closed, timers, writes, proxyPc, asked, dispatch, externalConnections, rtcConnections >>

WaitForChannelStep_handle(n) ==
    /\ SetHeap(ForEach(On(Pending(n), "remote-channel-open",
                          Listener(n, "channelOpened", FALSE)),
                       n, "channelOpened", "channel", remoteChannels(channels)))
    /\ UNCHANGED << closed, timers, writes, proxyPc, asked, dispatch, externalConnections, rtcConnections >>

\* mutant: the step does not wait for a message
WaitForMessageStep_handle_nowait(n) ==
    /\ SetHeap(Resolve(Pending(n), n))
    /\ UNCHANGED << closed, timers, writes, proxyPc, asked, dispatch, externalConnections, rtcConnections >>

WaitForMessageStep_handle(n) ==
    /\ SetHeap(ForEach(On(Pending(n), "channel-open",
                          Listener(n, "listenForMessage", FALSE)),
                       n, "listenForMessage", "channel", AllChannels))
    /\ UNCHANGED << closed, timers, writes, proxyPc, asked, dispatch, externalConnections, rtcConnections >>

WaitForTrackStep_handle(n) ==
    /\ SetHeap(IF remoteMediaTracks(mediaTracks) # {}
               THEN Resolve(Pending(n), n)
               ELSE On(Pending(n), "remote-track-open",
                       Listener(n, "remoteTrackOpened", TRUE)))
    /\ UNCHANGED << closed, timers, writes, proxyPc, asked, dispatch, externalConnections, rtcConnections >>

WaitForMediaStep_handle(n) ==
    /\ SetHeap(ForEach(On(Pending(n), "track-open",
                          Listener(n, "listenForData", FALSE)),
                       n, "listenForData", "track", AllTracks))
    /\ UNCHANGED << closed, timers, writes, proxyPc, asked, dispatch, externalConnections, rtcConnections >>

\* channels.filter(matchesChannel), in order
RECURSIVE FilterChannels(_, _)
FilterChannels(step, i) ==
    IF i > Len(channels) THEN << >>
    ELSE (IF SendStep_matchesChannel(step, channels[i]) THEN << i >> ELSE << >>)
         \o FilterChannels(step, i + 1)

Write(n, i, message) ==
    [step |-> n, channel |-> i, message |-> message, status |-> "pending"]

\* mutant: the message is written twice to each matching channel
SendStep_handle_twice(n) ==
    LET matching == FilterChannels(script[n], 1) \o FilterChannels(script[n], 1)
    IN /\ writes' = writes \o [k \in DOMAIN matching |->
                                  Write(n, matching[k], script[n].message)]
       /\ SetHeap(IF matching = << >> THEN Resolve(Pending(n), n) ELSE Pending(n))
       /\ UNCHANGED << closed, timers, proxyPc, asked, dispatch, externalConnections,
                       rtcConnections >>

\* one channel.write per matching channel; Promise.all of none resolves at once
SendStep_handle(n) ==
    LET matching == FilterChannels(script[n], 1)
    IN /\ writes' = writes \o [k \in DOMAIN matching |->
                                  Write(n, matching[k], script[n].message)]
       /\ SetHeap(IF matching = << >> THEN Resolve(Pending(n), n) ELSE Pending(n))
       /\ UNCHANGED << closed, timers, proxyPc, asked, dispatch, externalConnections, rtcConnections >>

\* connection.close(): tears the connection down, which fires connection-closed
close(h) == IF closed THEN h ELSE Emit(h, "connection-closed", NoArg)

CloseStep_handle(n) ==
    /\ closed' = TRUE
    /\ SetHeap(Resolve(close(Pending(n)), n))
    /\ UNCHANGED << timers, writes, proxyPc, asked, dispatch, externalConnections, rtcConnections >>

\* mutant: the step returns once it has set up the echo
EchoStep_handle_returns(n) ==
    LET h1 == On(Pending(n), "channel-open", Listener(n, "echoContent", FALSE))
        h2 == On(h1, "track-open", Listener(n, "echoContent", FALSE))
        h3 == ForEach(h2, n, "echoContent", "channel", AllChannels)
        h4 == ForEach(h3, n, "echoContent", "track", AllTracks)
    IN /\ SetHeap(Resolve(h4, n))
       /\ UNCHANGED << closed, timers, writes, proxyPc, asked, dispatch, externalConnections, rtcConnections >>

\* mutant: the streams that are already open are not piped
EchoStep_handle_futureOnly(n) ==
    LET h1 == On(Pending(n), "channel-open", Listener(n, "echoContent", FALSE))
        h2 == On(h1, "track-open", Listener(n, "echoContent", FALSE))
    IN /\ SetHeap(On(h2, "connection-closed", Listener(n, "resolve", FALSE)))
       /\ UNCHANGED << closed, timers, writes, proxyPc, asked, dispatch, externalConnections, rtcConnections >>

EchoStep_handle(n) ==
    LET h1 == On(Pending(n), "channel-open", Listener(n, "echoContent", FALSE))
        h2 == On(h1, "track-open", Listener(n, "echoContent", FALSE))
        h3 == ForEach(h2, n, "echoContent", "channel", AllChannels)
        h4 == ForEach(h3, n, "echoContent", "track", AllTracks)
    IN /\ SetHeap(On(h4, "connection-closed", Listener(n, "resolve", FALSE)))
       /\ UNCHANGED << closed, timers, writes, proxyPc, asked, dispatch, externalConnections, rtcConnections >>

NewRTCConnection(n) ==
    [creator |-> n, closed |-> FALSE, localDescription |-> "none",
     remoteDescription |-> "none", proxied |-> FALSE]

\* mutant: the new connection is not put on the list
PeerProxyStep_handle_unlisted(n) ==
    /\ rtcConnections' = Append(rtcConnections, NewRTCConnection(n))
    /\ proxyPc' = [proxyPc EXCEPT ![n] = "getLocalDescription"]
    /\ SetHeap(Pending(n))
    /\ UNCHANGED << closed, timers, writes, asked, dispatch, externalConnections >>

\* new RTCConnection(); push; await externalConn.getLocalDescription()
PeerProxyStep_handle(n) ==
    /\ rtcConnections' = Append(rtcConnections, NewRTCConnection(n))
    /\ externalConnections' =
           [externalConnections EXCEPT ![n] = Append(@, Len(rtcConnections) + 1)]
    /\ proxyPc' = [proxyPc EXCEPT ![n] = "getLocalDescription"]
    /\ SetHeap(Pending(n))
    /\ UNCHANGED << closed, timers, writes, asked, dispatch >>

\* await connection.proxyTrafficToExternalConnection()
DynamicProxyStep_handle(n) ==
    /\ proxyPc' = [proxyPc EXCEPT ![n] = "proxyTrafficToExternalConnection"]
    /\ SetHeap(Pending(n))
    /\ UNCHANGED << closed, timers, writes, asked, dispatch, externalConnections,
                    rtcConnections >>

\* StepLookup: the executor of each type tag
StepLookup(n) ==
    CASE script[n].type = "wait-for-duration" -> WaitForDurationStep_handle(n)
      [] script[n].type = "wait-for-channel" -> WaitForChannelStep_handle(n)
      [] script[n].type = "wait-for-track" -> WaitForTrackStep_handle(n)
      [] script[n].type = "wait-for-media" -> WaitForMediaStep_handle(n)
      [] script[n].type = "wait-for-message" -> WaitForMessageStep_handle(n)
      [] script[n].type = "send-message" -> SendStep_handle(n)
      [] script[n].type = "close-connection" -> CloseStep_handle(n)
      [] script[n].type = "echo-channels" -> EchoStep_handle(n)
      [] script[n].type = "peer-proxy" -> PeerProxyStep_handle(n)
      [] script[n].type = "dynamic-proxy" -> DynamicProxyStep_handle(n)

(***************************************************************************)
(* dispose(): PeerProxyStep and DynamicProxyStep close the connections of  *)
(* their private list; the other steps have nothing to dispose.            *)
(***************************************************************************)
Range(f) == {f[i] : i \in DOMAIN f}

\* mutant: dispose() leaves the connections of the list open
PeerProxyStep_dispose_keeps(rtc, n) == rtc

PeerProxyStep_dispose(rtc, n) ==
    [i \in DOMAIN rtc |->
        IF i \in Range(externalConnections[n]) THEN [rtc[i] EXCEPT !.closed = TRUE] ELSE rtc[i]]

DynamicProxyStep_dispose(rtc, n) ==
    [i \in DOMAIN rtc |->
        IF i \in Range(externalConnections[n]) THEN [rtc[i] EXCEPT !.closed = TRUE] ELSE rtc[i]]

dispose(rtc, n) ==
    CASE script[n].type = "peer-proxy" -> PeerProxyStep_dispose(rtc, n)
      [] script[n].type = "dynamic-proxy" -> DynamicProxyStep_dispose(rtc, n)
      [] OTHER -> rtc

RECURSIVE DisposeSteps(_, _)
DisposeSteps(rtc, ns) ==
    IF ns = {} THEN rtc
    ELSE LET n == CHOOSE x \in ns : \A y \in ns : x <= y
         IN DisposeSteps(dispose(rtc, n), ns \ {n})

Executed == {n \in Steps : stepState[n] # "notstarted"}

(***************************************************************************)
(* Session Runner: runs the steps in order, awaiting each; ends the        *)
(* session on the last completion, on a failure, or when the connection    *)
(* closes under a step that is still pending; disposes the executed steps. *)
(***************************************************************************)
StartStep(n) ==
    /\ StepLookup(n)
    /\ startInfo' = [startInfo EXCEPT ![n] =
                        [channels |-> Len(channels), tracks |-> Len(mediaTracks),
                         closed |-> closed]]

EndSession(result) ==
    /\ session' = result
    /\ disposed' = Executed
    /\ rtcConnections' = DisposeSteps(rtcConnections, Executed)

\* the runner's continuation after a settled step runs before any other event
ContinuationPending == session = "running" /\ stepState[cur] # "pending"

RunnerStart ==
    /\ session = "idle"
    /\ session' = "running"
    /\ cur' = 1
    /\ StartStep(1)
    /\ UNCHANGED << script, wire, steps, buildError, getAnswer, deserialized, failedStep, disposed >>

RunnerNext ==
    /\ session = "running"
    /\ stepState[cur] = "resolved"
    /\ cur < Len(script)
    /\ cur' = cur + 1
    /\ StartStep(cur + 1)
    /\ UNCHANGED << script, wire, steps, buildError, getAnswer, deserialized, session, failedStep, disposed >>

RunnerFinish ==
    /\ session = "running"
    /\ stepState[cur] = "resolved"
    /\ cur = Len(script)
    /\ EndSession("completed")
    /\ UNCHANGED << script, wire, steps, buildError, getAnswer, deserialized, cur, failedStep, stepState, listeners, channels, mediaTracks,
                    closed, timers, writes, proxyPc, asked, dispatch, externalConnections, startInfo,
                    lateCalls >>

RunnerFail ==
    /\ session = "running"
    /\ stepState[cur] = "rejected"
    /\ failedStep' = cur
    /\ EndSession("failed")
    /\ UNCHANGED << script, wire, steps, buildError, getAnswer, deserialized, cur, stepState, listeners, channels, mediaTracks,
                    closed, timers, writes, proxyPc, asked, dispatch, externalConnections, startInfo,
                    lateCalls >>

RunnerAbort ==
    /\ session = "running"
    /\ closed
    /\ stepState[cur] = "pending"
    /\ EndSession("aborted")
    /\ UNCHANGED << script, wire, steps, buildError, getAnswer, deserialized, cur, failedStep, stepState, listeners, channels, mediaTracks,
                    closed, timers, writes, proxyPc, asked, dispatch, externalConnections, startInfo,
                    lateCalls >>

(***************************************************************************)
(* The connection and its streams, driven by the transport.                *)
(***************************************************************************)
\* the transport is modelled for as long as the session lasts
Running == ~closed /\ session \in {"idle", "running"} /\ ~ContinuationPending

OpenChannel(label, isLocal) ==
    /\ Running
    /\ Len(channels) + Len(mediaTracks) < MaxStreams
    /\ LET i == Len(channels) + 1
           arg == [kind |-> "channel", idx |-> i]
           h0 == [Heap EXCEPT !.channels = Append(@, NewStream(label, isLocal))]
           h1 == IF isLocal THEN h0 ELSE Emit(h0, "remote-channel-open", arg)
       IN SetHeap(Emit(h1, "channel-open", arg))
    /\ UNCHANGED << script, wire, steps, buildError, getAnswer, deserialized, session, cur, failedStep, closed, timers, writes, proxyPc, asked, dispatch,
                    externalConnections, rtcConnections, disposed, startInfo >>

OpenTrack(isLocal) ==
    /\ Running
    /\ Len(channels) + Len(mediaTracks) < MaxStreams
    /\ LET i == Len(mediaTracks) + 1
           arg == [kind |-> "track", idx |-> i]
           h0 == [Heap EXCEPT !.mediaTracks = Append(@, NewStream(Undefined, isLocal))]
           h1 == IF isLocal THEN h0 ELSE Emit(h0, "remote-track-open", arg)
       IN SetHeap(Emit(h1, "track-open", arg))
    /\ UNCHANGED << script, wire, steps, buildError, getAnswer, deserialized, session, cur, failedStep, closed, timers, writes, proxyPc, asked, dispatch,
                    externalConnections, rtcConnections, disposed, startInfo >>

Stream(kind, i) == IF kind = "channel" THEN channels[i] ELSE mediaTracks[i]

StreamIds ==
    {[kind |-> "channel", idx |-> i] : i \in DOMAIN channels}
        \cup {[kind |-> "track", idx |-> i] : i \in DOMAIN mediaTracks}

SetStream(h, kind, i, s) ==
    IF kind = "channel" THEN [h EXCEPT !.channels[i] = s]
    ELSE [h EXCEPT !.mediaTracks[i] = s]

RECURSIVE Arrived(_)
Arrived(ss) ==
    IF ss = << >> THEN 0 ELSE Head(ss).buffered + Head(ss).received + Arrived(Tail(ss))

\* a chunk arrives from the peer and is buffered by the stream
DataArrives(kind, i) ==
    /\ Running
    /\ Arrived(channels) + Arrived(mediaTracks) < MaxData
    /\ SetHeap(SetStream(Heap, kind, i, [Stream(kind, i) EXCEPT !.buffered = @ + 1]))
    /\ UNCHANGED << script, wire, steps, buildError, getAnswer, deserialized, session, cur, failedStep, closed, timers, writes, proxyPc, asked, dispatch,
                    externalConnections, rtcConnections, disposed, startInfo >>

\* a flowing stream emits 'data' for a buffered chunk
Flow(kind, i) ==
    /\ Running
    /\ Stream(kind, i).flowing = "true"
    /\ Stream(kind, i).buffered > 0
    /\ SetHeap(EmitData(SetStream(Heap, kind, i,
                   [Stream(kind, i) EXCEPT !.buffered = @ - 1, !.received = @ + 1]),
                   kind, i))
    /\ UNCHANGED << script, wire, steps, buildError, getAnswer, deserialized, session, cur, failedStep, closed, timers, writes, proxyPc, asked, dispatch,
                    externalConnections, rtcConnections, disposed, startInfo >>

\* the peer or the network closes the connection
ConnectionClosed ==
    /\ Running
    /\ session # "idle"
    /\ closed' = TRUE
    /\ SetHeap(Emit(Heap, "connection-closed", NoArg))
    /\ UNCHANGED << script, wire, steps, buildError, getAnswer, deserialized, session, cur, failedStep, timers, writes, proxyPc, asked, dispatch,
                    externalConnections, rtcConnections, disposed, startInfo >>

(***************************************************************************)
(* Resumptions of the suspended steps.                                     *)
(***************************************************************************)
\* setTimeout(resolve, durationMs) fires
TimerFires(n) ==
    /\ ~ContinuationPending
    /\ n \in timers
    /\ timers' = timers \ {n}
    /\ SetHeap(Resolve(Heap, n))
    /\ UNCHANGED << script, wire, steps, buildError, getAnswer, deserialized, session, cur, failedStep, closed, writes, proxyPc, asked, dispatch,
                    externalConnections, rtcConnections, disposed, startInfo >>

\* mutant: a failed write is reported only once every write has called back
SendStep_writeCallback_allSettled(h, ws, n, error) ==
    IF \E k \in DOMAIN ws : ws[k].step = n /\ ws[k].status = "pending" THEN h
    ELSE IF \E k \in DOMAIN ws : ws[k].step = n /\ ws[k].status = "error"
         THEN Reject(h, n)
         ELSE Resolve(h, n)

\* mutant: the first acknowledged write completes the step (Promise.race)
SendStep_writeCallback_race(h, ws, n, error) ==
    IF error THEN Reject(h, n) ELSE Resolve(h, n)

\* mutant: the write callback ignores its error argument
SendStep_writeCallback_swallow(h, ws, n, error) ==
    IF \A k \in DOMAIN ws : ws[k].step = n => ws[k].status # "pending"
    THEN Resolve(h, n)
    ELSE h

\* Promise.all over the writes of step n, after one of its callbacks ran
SendStep_writeCallback(h, ws, n, error) ==
    IF error THEN Reject(h, n)
    ELSE IF \A k \in DOMAIN ws : ws[k].step = n => ws[k].status = "ok"
         THEN Resolve(h, n)
         ELSE h

\* the transport calls back write w
WriteCallback(w, error) ==
    /\ ~ContinuationPending
    /\ writes[w].status = "pending"
    /\ writes' = [writes EXCEPT ![w].status = IF error THEN "error" ELSE "ok"]
    /\ SetHeap(SendStep_writeCallback(Heap, writes', writes[w].step, error))
    /\ UNCHANGED << script, wire, steps, buildError, getAnswer, deserialized, session, cur, failedStep, closed, timers, proxyPc, asked, dispatch,
                    externalConnections, rtcConnections, disposed, startInfo >>

externalConn(n) == externalConnections[n][Len(externalConnections[n])]

\* channel.request({ offer }): the message the deserialized step sends
Request(offer) == [offer |-> offer]

\* mutant: the handler answers the first offer whatever the request holds
PeerProxyStep_serialize_onRequest_stale(msg) ==
    IF getAnswer["offer1"] = Throws THEN [error |-> Throws]
    ELSE [answer |-> getAnswer["offer1"]]

\* the handler serialize() registers on the channel:
\* { answer: await this.getAnswer(msg.offer) }; when the handler throws the
\* channel answers the request with an error
PeerProxyStep_serialize_onRequest(msg) ==
    IF getAnswer[msg.offer] = Throws THEN [error |-> Throws]
    ELSE [answer |-> getAnswer[msg.offer]]

\* the getAnswer of a deserialized step, once the response is there:
\* response.answer; an error response rejects channel.request
PeerProxyStep_deserialize_getAnswer(response) ==
    IF "error" \in DOMAIN response THEN Throws ELSE response.answer

Waiting == "waiting"

\* the outcome of the this.getAnswer(externalOffer) that step n awaits
PeerProxyStep_getAnswer(n) ==
    IF deserialized
    THEN IF dispatch[n].inflight = << >> \/ "offer" \in DOMAIN dispatch[n].inflight[1]
         THEN Waiting
         ELSE PeerProxyStep_deserialize_getAnswer(dispatch[n].inflight[1])
    ELSE getAnswer[asked[n][Len(asked[n])]]

\* mutant: the traffic is relayed as soon as the offer is there
PeerProxyStep_gotLocalDescription_relays(n) ==
    /\ ~ContinuationPending
    /\ proxyPc[n] = "getLocalDescription"
    /\ proxyPc' = [proxyPc EXCEPT ![n] = "getAnswer"]
    /\ \E offer \in Offers :
          /\ rtcConnections' = [rtcConnections EXCEPT
                                   ![externalConn(n)].localDescription = offer,
                                   ![externalConn(n)].proxied = TRUE]
          /\ asked' = [asked EXCEPT ![n] = Append(@, offer)]
          /\ dispatch' = IF deserialized
                         THEN [dispatch EXCEPT ![n].requests = Append(@, Request(offer)),
                                               ![n].inflight = << Request(offer) >>]
                         ELSE dispatch
    /\ UNCHANGED << script, wire, steps, buildError, getAnswer, deserialized, session, cur, failedStep, stepState,
                    listeners, channels, mediaTracks, closed, timers, writes,
                    externalConnections, disposed, startInfo, lateCalls >>

\* externalConn.getLocalDescription() resolves; this.getAnswer(externalOffer) is
\* called: the answer source is asked, over the channel when deserialized
PeerProxyStep_gotLocalDescription(n) ==
    /\ ~ContinuationPending
    /\ proxyPc[n] = "getLocalDescription"
    /\ proxyPc' = [proxyPc EXCEPT ![n] = "getAnswer"]
    /\ \E offer \in Offers :
          /\ rtcConnections' = [rtcConnections EXCEPT
                                   ![externalConn(n)].localDescription = offer]
          /\ asked' = [asked EXCEPT ![n] = Append(@, offer)]
          /\ dispatch' = IF deserialized
                         THEN [dispatch EXCEPT ![n].requests = Append(@, Request(offer)),
                                               ![n].inflight = << Request(offer) >>]
                         ELSE dispatch
    /\ UNCHANGED << script, wire, steps, buildError, getAnswer, deserialized, session, cur, failedStep, stepState,
                    listeners, channels, mediaTracks, closed, timers, writes,
                    externalConnections, disposed, startInfo, lateCalls >>

\* the definition side receives the request and its handler answers it
DispatchChannel_onRequest(n) ==
    /\ ~ContinuationPending
    /\ deserialized
    /\ dispatch[n].inflight # << >>
    /\ "offer" \in DOMAIN dispatch[n].inflight[1]
    /\ dispatch' = [dispatch EXCEPT
                       ![n].inflight = << PeerProxyStep_serialize_onRequest(@[1]) >>]
    /\ UNCHANGED << script, wire, steps, buildError, getAnswer, deserialized, session, cur, failedStep, stepState,
                    listeners, channels, mediaTracks, closed, timers, writes, proxyPc,
                    asked, externalConnections, rtcConnections, disposed, startInfo,
                    lateCalls >>

\* the response, when there is one, is taken off the channel
Received(n) == [dispatch EXCEPT ![n].inflight = << >>]

\* getAnswer resolves: setRemoteDescription, proxyTrafficTo, park on connection-closed
PeerProxyStep_gotAnswer(n) ==
    /\ ~ContinuationPending
    /\ proxyPc[n] = "getAnswer"
    /\ PeerProxyStep_getAnswer(n) \notin {Waiting, Throws}
    /\ proxyPc' = [proxyPc EXCEPT ![n] = "parked"]
    /\ rtcConnections' = [rtcConnections EXCEPT
                             ![externalConn(n)].remoteDescription =
                                 PeerProxyStep_getAnswer(n),
                             ![externalConn(n)].proxied = TRUE]
    /\ dispatch' = Received(n)
    /\ SetHeap(On(Heap, "connection-closed", Listener(n, "resolve", FALSE)))
    /\ UNCHANGED << script, wire, steps, buildError, getAnswer, deserialized, session, cur, failedStep, closed,
                    timers, writes, asked, externalConnections, disposed, startInfo >>

\* getAnswer rejects: handle() throws
PeerProxyStep_answerRejected(n) ==
    /\ ~ContinuationPending
    /\ proxyPc[n] = "getAnswer"
    /\ PeerProxyStep_getAnswer(n) = Throws
    /\ proxyPc' = [proxyPc EXCEPT ![n] = "threw"]
    /\ dispatch' = Received(n)
    /\ SetHeap(Reject(Heap, n))
    /\ UNCHANGED << script, wire, steps, buildError, getAnswer, deserialized, session, cur, failedStep, closed,
                    timers, writes, asked, externalConnections, rtcConnections, disposed,
                    startInfo >>

\* proxyTrafficToExternalConnection() resolves; park on connection-closed
DynamicProxyStep_proxying(n) ==
    /\ ~ContinuationPending
    /\ proxyPc[n] = "proxyTrafficToExternalConnection"
    /\ proxyPc' = [proxyPc EXCEPT ![n] = "parked"]
    /\ rtcConnections' = Append(rtcConnections,
                                [NewRTCConnection(0) EXCEPT !.proxied = TRUE])
    /\ SetHeap(On(Heap, "connection-closed", Listener(n, "resolve", FALSE)))
    /\ UNCHANGED << script, wire, steps, buildError, getAnswer, deserialized, session, cur, failedStep, closed,
                    timers, writes, asked, dispatch, externalConnections, disposed,
                    startInfo >>

(***************************************************************************)
(* The registries and the build of a script: each definition is serialized *)
(* to its wire form, carried as JSON to the administration side, and       *)
(* resolved there to an executor through StepLookup.                       *)
(***************************************************************************)
StepDefinitionLookup ==
    "wait-for-duration" :> "WaitForDurationStepDefinition" @@
    "wait-for-channel" :> "WaitForChannelStepDefinition" @@
    "wait-for-track" :> "WaitForTrackStepDefinition" @@
    "wait-for-media" :> "WaitForMediaStepDefinition" @@
    "wait-for-message" :> "WaitForMessageStepDefinition" @@
    "send-message" :> "SendStepDefinition" @@
    "close-connection" :> "CloseStepDefinition" @@
    "echo-channels" :> "EchoStepDefinition" @@
    "peer-proxy" :> "PeerProxyStepDefinition" @@
    "dynamic-proxy" :> "DynamicProxyStepDefinition"

\* mutant: a registry without the track and media steps
StepLookupClasses_channelsOnly ==
    "wait-for-duration" :> "WaitForDurationStep" @@
    "wait-for-channel" :> "WaitForChannelStep" @@
    "wait-for-message" :> "WaitForMessageStep" @@
    "send-message" :> "SendStep" @@
    "close-connection" :> "CloseStep" @@
    "echo-channels" :> "EchoStep" @@
    "peer-proxy" :> "PeerProxyStep" @@
    "dynamic-proxy" :> "DynamicProxyStep"

\* the classes of StepLookup, the executor registry
StepLookupClasses ==
    "wait-for-duration" :> "WaitForDurationStep" @@
    "wait-for-channel" :> "WaitForChannelStep" @@
    "wait-for-track" :> "WaitForTrackStep" @@
    "wait-for-media" :> "WaitForMediaStep" @@
    "wait-for-message" :> "WaitForMessageStep" @@
    "send-message" :> "SendStep" @@
    "close-connection" :> "CloseStep" @@
    "echo-channels" :> "EchoStep" @@
    "peer-proxy" :> "PeerProxyStep" @@
    "dynamic-proxy" :> "DynamicProxyStep"

\* class X extends Y
Extends ==
    "WaitForDurationStep" :> "WaitForDurationStepDefinition" @@
    "WaitForChannelStep" :> "WaitForChannelStepDefinition" @@
    "WaitForTrackStep" :> "WaitForTrackStepDefinition" @@
    "WaitForMediaStep" :> "WaitForMediaStepDefinition" @@
    "WaitForMessageStep" :> "WaitForMessageStepDefinition" @@
    "SendStep" :> "SendStepDefinition" @@
    "CloseStep" :> "CloseStepDefinition" @@
    "EchoStep" :> "EchoStepDefinition" @@
    "PeerProxyStep" :> "PeerProxyStepDefinition" @@
    "DynamicProxyStep" :> "DynamicProxyStepDefinition"

\* readonly type = '...' of each definition class
DefinitionType ==
    "WaitForDurationStepDefinition" :> WaitForDurationStepDefinition(0).type @@
    "WaitForChannelStepDefinition" :> WaitForChannelStepDefinition(Undefined).type @@
    "WaitForTrackStepDefinition" :> WaitForTrackStepDefinition.type @@
    "WaitForMediaStepDefinition" :> WaitForMediaStepDefinition.type @@
    "WaitForMessageStepDefinition" :> WaitForMessageStepDefinition(Undefined).type @@
    "SendStepDefinition" :> SendStepDefinition(Undefined, Text("")).type @@
    "CloseStepDefinition" :> CloseStepDefinition.type @@
    "EchoStepDefinition" :> EchoStepDefinition.type @@
    "PeerProxyStepDefinition" :> PeerProxyStepDefinition.type @@
    "DynamicProxyStepDefinition" :> DynamicProxyStepDefinition.type

\* the type field of an instance of the class
TypeOf(class) ==
    IF class \in DOMAIN DefinitionType THEN DefinitionType[class]
    ELSE DefinitionType[Extends[class]]

\* the definitions a script is built of, and one of a tag no registry knows
Durations == {0, 50}
Labels == {Undefined, "a", "b"}
Messages == {Text("m"), Text("Goodbye"), Buffer(<< 104, 105 >>)}

Definitions ==
    {WaitForDurationStepDefinition(d) : d \in Durations}
    \cup {WaitForChannelStepDefinition(l) : l \in Labels}
    \cup {WaitForMessageStepDefinition(l) : l \in Labels}
    \cup {SendStepDefinition(l, m) : l \in Labels, m \in Messages}
    \cup {WaitForTrackStepDefinition, WaitForMediaStepDefinition, CloseStepDefinition,
          EchoStepDefinition, PeerProxyStepDefinition, DynamicProxyStepDefinition}

ForeignDefinition == [type |-> "wait-for-event"]

BuildScripts ==
    {<< d >> : d \in Definitions \cup {ForeignDefinition}}
    \cup {<< d, e >> : d \in Definitions, e \in Definitions \cup {ForeignDefinition}}

\* Serializable.serialize: the definition is transferred as it is
Serializable_serialize(def) == def

\* PeerProxyStep.serialize returns { type: this.type }
PeerProxyStep_serialize(def) == [type |-> def.type]

serialize(def) ==
    IF def.type = "peer-proxy" THEN PeerProxyStep_serialize(def)
    ELSE Serializable_serialize(def)

\* the JSON the wire carries: a property that is undefined is left out, and
\* a Buffer is written as { type: 'Buffer', data: [...] }
toJSON(value) ==
    IF "buffer" \in DOMAIN value THEN [type |-> "Buffer", data |-> value.buffer]
    ELSE value

JSON(data) ==
    LET dropped == {f \in DOMAIN data \cap {"channelLabel"} : data[f] = Undefined}
    IN [f \in DOMAIN data \ dropped |->
           IF f = "message" THEN toJSON(data[f]) ELSE data[f]]

\* Serializable.deserialize: the data with the prototype of the class
Serializable_deserialize(class, data) == [class |-> class, own |-> data]

\* PeerProxyStep.deserialize: new PeerProxyStep(offer => channel.request({ offer }))
PeerProxyStep_deserialize(data) ==
    [class |-> "PeerProxyStep",
     own |-> [type |-> TypeOf("PeerProxyStep"), getAnswer |-> "channel.request",
              externalConnections |-> << >>]]

deserialize(data) ==
    IF data.type = "peer-proxy" THEN PeerProxyStep_deserialize(data)
    ELSE Serializable_deserialize(StepLookupClasses[data.type], data)

\* step.field
Get(step, field) == IF field \in DOMAIN step.own THEN step.own[field] ELSE Undefined

\* the client serializes the next definition of the script and sends it
SerializeStep ==
    /\ Len(wire) < Len(script)
    /\ wire' = Append(wire, JSON(serialize(script[Len(wire) + 1])))
    /\ UNCHANGED << script, steps, buildError, session, cur, failedStep, stepState,
                    listeners, channels, mediaTracks, closed, timers, writes, proxyPc,
                    getAnswer, deserialized, asked, dispatch, externalConnections,
                    rtcConnections, disposed, startInfo, lateCalls >>

\* the administration side resolves the next wire form through StepLookup
ResolveStep ==
    /\ buildError = "none"
    /\ Len(steps) < Len(wire)
    /\ LET data == wire[Len(steps) + 1]
       IN IF data.type \in DOMAIN StepLookupClasses
          THEN steps' = Append(steps, deserialize(data)) /\ UNCHANGED buildError
          ELSE buildError' = "UnknownStepType" /\ UNCHANGED steps
    /\ UNCHANGED << script, wire, session, cur, failedStep, stepState,
                    listeners, channels, mediaTracks, closed, timers, writes, proxyPc,
                    getAnswer, deserialized, asked, dispatch, externalConnections,
                    rtcConnections, disposed, startInfo, lateCalls >>

(***************************************************************************)
(* Specification.                                                          *)
(***************************************************************************)
HasPeerProxy(sc) == \E n \in DOMAIN sc : sc[n].type = "peer-proxy"

\* the scripts that proxy the connection
ProxyScripts == {sc \in Scripts : \E n \in DOMAIN sc : sc[n].type \in
                                      {"peer-proxy", "dynamic-proxy"}}

\* a session over one of the scripts; modes: how its peer-proxy steps were built
InitOver(scripts, modes) ==
    /\ script \in scripts
    /\ getAnswer \in IF HasPeerProxy(script) THEN AnswerSources
                     ELSE {CHOOSE f \in AnswerSources : TRUE}
    /\ deserialized \in IF HasPeerProxy(script) THEN modes ELSE {FALSE}
    /\ wire = << >>
    /\ steps = << >>
    /\ buildError = "none"
    /\ session = "idle"
    /\ cur = 0
    /\ failedStep = 0
    /\ stepState = [n \in DOMAIN script |-> "notstarted"]
    /\ listeners = [e \in Events |-> << >>]
    /\ channels = << >>
    /\ mediaTracks = << >>
    /\ closed = FALSE
    /\ timers = {}
    /\ writes = << >>
    /\ proxyPc = [n \in DOMAIN script |-> "none"]
    /\ asked = [n \in DOMAIN script |-> << >>]
    /\ dispatch = [n \in DOMAIN script |-> [requests |-> << >>, inflight |-> << >>]]
    /\ externalConnections = [n \in DOMAIN script |-> << >>]
    /\ rtcConnections = << >>
    /\ disposed = {}
    /\ startInfo = [n \in DOMAIN script |->
                       [channels |-> 0, tracks |-> 0, closed |-> FALSE]]
    /\ lateCalls = {}

Init == InitOver(Scripts, {FALSE})

Next ==
    \/ RunnerStart
    \/ RunnerNext
    \/ RunnerFinish
    \/ RunnerFail
    \/ RunnerAbort
    \/ \E c \in ChannelInputs : OpenChannel(c.label, c.isLocal)
    \/ \E isLocal \in BOOLEAN : OpenTrack(isLocal)
    \/ \E s \in StreamIds : DataArrives(s.kind, s.idx)
    \/ \E s \in StreamIds : Flow(s.kind, s.idx)
    \/ ConnectionClosed
    \/ \E n \in Steps : TimerFires(n)
    \/ \E w \in DOMAIN writes, error \in BOOLEAN : WriteCallback(w, error)
    \/ \E n \in Steps : PeerProxyStep_gotLocalDescription(n)
    \/ \E n \in Steps : PeerProxyStep_gotAnswer(n)
    \/ \E n \in Steps : PeerProxyStep_answerRejected(n)
    \/ \E n \in Steps : DynamicProxyStep_proxying(n)

Spec == Init /\ [][Next]_vars

(***************************************************************************)
(* The proxying sessions, their peer-proxy steps built locally or          *)
(* deserialized from the wire form, on a connection without streams.       *)
(***************************************************************************)
ProxyInit == InitOver(ProxyScripts, BOOLEAN)

ProxyNext ==
    \/ RunnerStart
    \/ RunnerNext
    \/ RunnerFinish
    \/ RunnerFail
    \/ RunnerAbort
    \/ ConnectionClosed
    \/ \E n \in Steps : TimerFires(n)
    \/ \E n \in Steps : PeerProxyStep_gotLocalDescription(n)
    \/ \E n \in Steps : DispatchChannel_onRequest(n)
    \/ \E n \in Steps : PeerProxyStep_gotAnswer(n)
    \/ \E n \in Steps : PeerProxyStep_answerRejected(n)
    \/ \E n \in Steps : DynamicProxyStep_proxying(n)

ProxySpec == ProxyInit /\ [][ProxyNext]_vars

(***************************************************************************)
(* The build of a script out of its definitions.                           *)
(***************************************************************************)
RegistryInit == InitOver(BuildScripts, {FALSE})

RegistryNext ==
    \/ SerializeStep
    \/ ResolveStep

RegistrySpec == RegistryInit /\ [][RegistryNext]_vars

(***************************************************************************)
(* Properties.                                                             *)
(***************************************************************************)
PendingWrites(n) == {w \in DOMAIN writes : writes[w].step = n /\ writes[w].status = "pending"}

\* step n has asynchronous work in flight
Outstanding(n) ==
    \/ n \in timers
    \/ PendingWrites(n) # {}
    \/ proxyPc[n] \in {"getLocalDescription", "getAnswer", "proxyTrafficToExternalConnection"}

\* the execution of step n failed: a write of it reported an error, or its answer
\* source rejected
ExecFailed(n) ==
    \/ \E w \in DOMAIN writes : writes[w].step = n /\ writes[w].status = "error"
    \/ proxyPc[n] = "threw"

\* C1: step n+1 is started only after the execution of step n has completed or
\* failed (its promise settled, none of its work in flight), and at every moment
\* at most one step of the session is executing.
C1_Sequential ==
    /\ Cardinality({n \in Steps : stepState[n] = "pending"}) <= 1
    /\ \A n \in Steps :
          (n > 1 /\ stepState[n] # "notstarted") =>
              /\ stepState[n - 1] \in {"resolved", "rejected"}
              /\ ~Outstanding(n - 1)

C1_Witness ==
    \E n \in Steps : n > 1 /\ stepState[n] = "pending" /\ stepState[n - 1] = "resolved"
                     /\ script[n - 1].type = "send-message" /\ startInfo[n - 1].channels = 2

GoodbyeWrittenTo(i) ==
    \E w \in DOMAIN writes : writes[w].channel = i /\ writes[w].message = Text("Goodbye")

DataReceivedOn(i) == i \in DOMAIN channels /\ channels[i].received > 0

\* C3: in the README script nothing is written before the first data has been
\* received on a channel; once data has been received on a channel, step 1 is
\* complete and "Goodbye" has been written to that channel, or the runner is about
\* to start step 2, which writes it.
C3_Readme ==
    script = ReadmeScript =>
        /\ writes # << >> => \E j \in DOMAIN channels : DataReceivedOn(j)
        /\ \A i \in DOMAIN channels :
              DataReceivedOn(i) =>
                  /\ stepState[1] = "resolved"
                  /\ GoodbyeWrittenTo(i) \/ (session = "running" /\ cur = 1)

C3_Witness ==
    /\ script = ReadmeScript
    /\ \E i \in DOMAIN channels :
          DataReceivedOn(i) /\ GoodbyeWrittenTo(i) /\ stepState[1] = "resolved"

(***************************************************************************)
(* Waiting steps.                                                          *)
(***************************************************************************)
Started(n) == stepState[n] # "notstarted"

LabelOk(n, i) ==
    script[n].channelLabel = Undefined \/ script[n].channelLabel = channels[i].label

\* a remote channel matching the filter of step n was open when the step started
ChannelAtStart(n) ==
    \E i \in 1..startInfo[n].channels : ~channels[i].isLocal /\ LabelOk(n, i)

\* a remote track was open when step n started
TrackAtStart(n) == \E i \in 1..startInfo[n].tracks : ~mediaTracks[i].isLocal

\* C4: a wait-for-channel step started with a matching remote channel already open,
\* or a wait-for-track step started with a remote track already open, is complete
\* as soon as it has been started, whatever happens afterwards.
C4_AlreadyOpen ==
    \A n \in Steps :
        /\ (script[n].type = "wait-for-channel" /\ Started(n) /\ ChannelAtStart(n))
               => stepState[n] = "resolved"
        /\ (script[n].type = "wait-for-track" /\ Started(n) /\ TrackAtStart(n))
               => stepState[n] = "resolved"

C4_Witness ==
    \E n \in Steps :
        /\ script[n].type = "wait-for-channel"
        /\ script[n].channelLabel = "a"
        /\ ChannelAtStart(n)
        /\ Len(channels) = startInfo[n].channels
        /\ Len(mediaTracks) = startInfo[n].tracks
        /\ stepState[n] = "resolved"
        /\ ~closed

\* C5: a started wait-for-channel step is complete exactly when a remote channel
\* matching its filter is open, whether it opened before or after the step started;
\* local and non-matching channels do not complete it.
C5_ChannelIff ==
    \A n \in Steps :
        (script[n].type = "wait-for-channel" /\ Started(n)) =>
            (stepState[n] = "resolved"
                <=> \E i \in DOMAIN channels : ~channels[i].isLocal /\ LabelOk(n, i))

C5_Witness ==
    \E n \in Steps :
        /\ script[n].type = "wait-for-channel"
        /\ script[n].channelLabel = "a"
        /\ stepState[n] = "resolved"
        /\ startInfo[n].channels = 1
        /\ channels[1].label = "b" \/ channels[1].isLocal
        /\ Len(channels) = 2

StepListenersOn(ls, n) == {k \in DOMAIN ls : ls[k].step = n}

\* step n has no listener on the connection, on a channel or on a track
NoListeners(n) ==
    /\ \A e \in Events : StepListenersOn(listeners[e], n) = {}
    /\ \A i \in DOMAIN channels : StepListenersOn(channels[i].listeners, n) = {}
    /\ \A i \in DOMAIN mediaTracks : StepListenersOn(mediaTracks[i].listeners, n) = {}

\* C6: once a wait-for-message or wait-for-media step has completed, none of its
\* listeners is registered on the connection or on any channel or track, and no
\* event has invoked one of them after the completion.
C6_SingleFire ==
    \A n \in Steps :
        (script[n].type \in {"wait-for-message", "wait-for-media"}
             /\ stepState[n] = "resolved")
            => (NoListeners(n) /\ n \notin lateCalls)

C6_Witness ==
    \E n \in Steps :
        /\ script[n].type = "wait-for-message"
        /\ stepState[n] = "resolved"
        /\ startInfo[n].channels = 2
        /\ \E i, j \in DOMAIN channels :
              /\ channels[i].received > 0
              /\ channels[j].received = 0 /\ channels[j].buffered > 0
              /\ WaitForMessageStep_matchesChannel(script[n], channels[j])

(***************************************************************************)
(* send-message.                                                           *)
(***************************************************************************)
WritesOf(n) == {w \in DOMAIN writes : writes[w].step = n}

\* C7: a send-message step does not complete before every one of its writes has
\* been acknowledged, and it has failed as soon as one of its writes has reported
\* an error, whether or not the other writes have called back.
C7_AllWrites ==
    \A n \in Steps :
        script[n].type = "send-message" =>
            /\ stepState[n] = "resolved" => \A w \in WritesOf(n) : writes[w].status = "ok"
            /\ (\E w \in WritesOf(n) : writes[w].status = "error")
                   => stepState[n] = "rejected"

C7_Witness ==
    \E n \in Steps :
        /\ script[n].type = "send-message"
        /\ stepState[n] = "rejected"
        /\ \E w \in WritesOf(n) : writes[w].status = "error"
        /\ \E w \in WritesOf(n) : writes[w].status = "pending"

\* no channel of the connection matched the filter of step n when it started
NoChannelAtStart(n) == \A i \in 1..startInfo[n].channels : ~LabelOk(n, i)

\* C8: a send-message step started when no channel matches its filter has
\* completed successfully and has issued no write.
C8_VacuousSend ==
    \A n \in Steps :
        (script[n].type = "send-message" /\ Started(n) /\ NoChannelAtStart(n))
            => (stepState[n] = "resolved" /\ WritesOf(n) = {})

C8_Witness ==
    \E n \in Steps :
        /\ script[n].type = "send-message"
        /\ Started(n)
        /\ startInfo[n].channels > 0
        /\ NoChannelAtStart(n)
        /\ stepState[n] = "resolved"

(***************************************************************************)
(* Perpetual steps.                                                        *)
(***************************************************************************)
Perpetual(n) == script[n].type \in PerpetualTypes

\* C9: an echo-channels, peer-proxy or dynamic-proxy step is never complete while
\* the connection is open, and it has at most one completion listener, registered
\* on connection-closed.
C9_OnlyOnClose ==
    \A n \in Steps :
        Perpetual(n) =>
            /\ stepState[n] = "resolved" => closed
            /\ Cardinality(StepListenersOn(listeners["connection-closed"], n)) <= 1

C9_Witness ==
    \E n \in Steps :
        /\ script[n].type = "peer-proxy"
        /\ stepState[n] = "resolved"
        /\ closed

\* C10: once the connection has closed, a started echo-channels, peer-proxy or
\* dynamic-proxy step whose handle() has nothing left in flight and has not failed
\* is complete.
C10_ClosureResolves ==
    \A n \in Steps :
        (Perpetual(n) /\ Started(n) /\ closed /\ ~Outstanding(n) /\ ~ExecFailed(n))
            => stepState[n] = "resolved"

(***************************************************************************)
(* Peer-proxy negotiation.                                                 *)
(***************************************************************************)
\* the external connections step n created
CreatedBy(n) == {i \in DOMAIN rtcConnections : rtcConnections[i].creator = n}

\* the answer source of step n throws for the offer it was asked with
AnswerSourceThrows(n) == asked[n] # << >> /\ getAnswer[asked[n][1]] = Throws

\* C11: when the answer source of a peer-proxy step throws for the offer it is
\* asked with, the step does not complete and fails once the rejection reaches
\* it, the mock connection is never wired to the external connection, and once
\* the step is disposed every external connection it created is closed.
C11_NegotiationFailed ==
    \A n \in Steps :
        (script[n].type = "peer-proxy" /\ AnswerSourceThrows(n)) =>
            /\ stepState[n] \in {"pending", "rejected"}
            /\ proxyPc[n] \in {"getAnswer", "threw"}
            /\ proxyPc[n] = "threw" => stepState[n] = "rejected"
            /\ \A i \in CreatedBy(n) : ~rtcConnections[i].proxied
            /\ n \in disposed => \A i \in CreatedBy(n) : rtcConnections[i].closed

C11_Witness ==
    \E n \in Steps :
        /\ script[n].type = "peer-proxy"
        /\ AnswerSourceThrows(n)
        /\ proxyPc[n] = "threw"
        /\ session = "failed"
        /\ n \in disposed
        /\ CreatedBy(n) # {}
        /\ \A i \in CreatedBy(n) : rtcConnections[i].closed

\* C12: the getAnswer of a deserialized peer-proxy step sends one request over the
\* dispatch channel, holding the offer it was called with; the answer the step
\* applies is the one the answer source of the definition produces for that offer;
\* and when that answer source throws, the response is an error and the step has
\* failed once the response has been delivered.
C12_RemoteAnswer ==
    \A n \in Steps :
        (script[n].type = "peer-proxy" /\ deserialized /\ asked[n] # << >>) =>
            LET offer == asked[n][1]
                conn == rtcConnections[externalConn(n)]
            IN /\ offer = conn.localDescription
               /\ dispatch[n].requests = << [offer |-> offer] >>
               /\ proxyPc[n] = "parked" =>
                     /\ getAnswer[offer] # Throws
                     /\ conn.remoteDescription = getAnswer[offer]
               /\ proxyPc[n] = "threw" => getAnswer[offer] = Throws
               /\ (getAnswer[offer] = Throws /\ dispatch[n].inflight = << >>) =>
                     /\ proxyPc[n] = "threw"
                     /\ stepState[n] = "rejected"

C12_Witness ==
    \E n \in Steps :
        /\ script[n].type = "peer-proxy"
        /\ deserialized
        /\ asked[n] = << "offer2" >>
        /\ dispatch[n].inflight = << >>
        /\ proxyPc[n] = "parked"
        /\ rtcConnections[externalConn(n)].remoteDescription = getAnswer["offer2"]

\* C19: a started peer-proxy step has created exactly one external connection;
\* its answer source is asked once, with the local offer of that connection and
\* not before the offer is there; the answer applied to the connection is the
\* one returned for that offer; and the traffic is relayed to the connection only
\* once the answer has been applied.
C19_NegotiationOrder ==
    \A n \in Steps :
        (script[n].type = "peer-proxy" /\ Started(n)) =>
            /\ Cardinality(CreatedBy(n)) = 1
            /\ externalConnections[n] = << CHOOSE i \in CreatedBy(n) : TRUE >>
            /\ LET conn == rtcConnections[externalConn(n)]
               IN /\ asked[n] # << >> =>
                        /\ conn.localDescription \in Offers
                        /\ asked[n] = << conn.localDescription >>
                  /\ conn.remoteDescription # "none" =>
                        /\ asked[n] # << >>
                        /\ conn.remoteDescription = getAnswer[asked[n][1]]
                  /\ conn.proxied => conn.remoteDescription # "none"

C19_Witness ==
    \E n \in Steps :
        /\ script[n].type = "peer-proxy"
        /\ proxyPc[n] = "parked"
        /\ rtcConnections[externalConn(n)].proxied
        /\ rtcConnections[externalConn(n)].remoteDescription = getAnswer[asked[n][1]]

\* C23: every external connection a PeerProxyStep has created is on the step's
\* externalConnections list, so that dispose() closes all of them whenever it is
\* called, and they are closed once the step has been disposed; the list of a
\* DynamicProxyStep is empty and its dispose() closes nothing.
C23_OwnedConnections ==
    \A n \in Steps :
        /\ script[n].type = "peer-proxy" =>
              /\ CreatedBy(n) = Range(externalConnections[n])
              /\ \A i \in CreatedBy(n) :
                    /\ PeerProxyStep_dispose(rtcConnections, n)[i].closed
                    /\ n \in disposed => rtcConnections[i].closed
        /\ script[n].type = "dynamic-proxy" =>
              /\ externalConnections[n] = << >>
              /\ DynamicProxyStep_dispose(rtcConnections, n) = rtcConnections

C23_Witness ==
    \E n \in Steps :
        /\ script[n].type = "peer-proxy"
        /\ proxyPc[n] \in {"getLocalDescription", "getAnswer"}
        /\ n \notin disposed
        /\ CreatedBy(n) # {}
        /\ \E i \in CreatedBy(n) : ~rtcConnections[i].closed

\* C24: an external connection that dispose() has closed is left as it is by the
\* rest of handle(): no answer is applied to it and the traffic of the mock
\* connection is not relayed to it.
C24_NoUseAfterDispose ==
    [][\A i \in DOMAIN rtcConnections :
          rtcConnections[i].closed =>
              /\ rtcConnections'[i].remoteDescription = rtcConnections[i].remoteDescription
              /\ rtcConnections'[i].proxied = rtcConnections[i].proxied]_vars

(***************************************************************************)
(* Serialization and the registries.                                       *)
(***************************************************************************)
Parameters == {"durationMs", "channelLabel", "message"}

\* C13: the executor resolved from the wire form of a definition is of the class
\* registered for the tag of the definition, and has the type tag and the
\* parameters (durationMs, channelLabel, message) of the definition.
C13_RoundTrip ==
    \A k \in DOMAIN steps :
        /\ steps[k].class = StepLookupClasses[script[k].type]
        /\ Get(steps[k], "type") = script[k].type
        /\ \A f \in Parameters \cap DOMAIN script[k] : Get(steps[k], f) = script[k][f]

\* C14: the definition registry and the executor registry have the same ten keys,
\* each key maps to a definition class and to an executor class extending it
\* whose type is the key, and the build of a script stops with UnknownStepType
\* at the first wire form whose tag is not a key, for which no step is made.
C14_ClosedRegistry ==
    /\ DOMAIN StepDefinitionLookup = DOMAIN StepLookupClasses
    /\ Cardinality(DOMAIN StepLookupClasses) = 10
    /\ \A tag \in DOMAIN StepLookupClasses :
          /\ TypeOf(StepDefinitionLookup[tag]) = tag
          /\ TypeOf(StepLookupClasses[tag]) = tag
          /\ Extends[StepLookupClasses[tag]] = StepDefinitionLookup[tag]
    /\ \A t1, t2 \in DOMAIN StepLookupClasses :
          StepLookupClasses[t1] = StepLookupClasses[t2] => t1 = t2
    /\ \A k \in DOMAIN steps : Get(steps[k], "type") \in DOMAIN StepDefinitionLookup
    /\ \A k \in DOMAIN wire :
          wire[k].type \notin DOMAIN StepDefinitionLookup => Len(steps) < k
    /\ buildError \in {"none", "UnknownStepType"}
    /\ buildError = "UnknownStepType" <=>
          /\ Len(steps) < Len(wire)
          /\ wire[Len(steps) + 1].type \notin DOMAIN StepDefinitionLookup
          /\ ~ENABLED ResolveStep

C14_Witness ==
    /\ buildError = "UnknownStepType"
    /\ Len(steps) = 1
    /\ Len(wire) = 2
    /\ wire[2].type = ForeignDefinition.type

(***************************************************************************)
(* Closure and teardown.                                                   *)
(***************************************************************************)
WaitTypes == {"wait-for-duration", "wait-for-channel", "wait-for-message",
              "wait-for-track", "wait-for-media"}

\* step n was started on the open connection and was pending when it closed
PendingAtClosure(n) ==
    /\ script[n].type \in WaitTypes
    /\ closed
    /\ ~startInfo[n].closed
    /\ stepState[n] = "pending"

\* C15: a wait-for-duration, wait-for-channel, wait-for-message, wait-for-track or
\* wait-for-media step that was pending when the connection closed does not
\* complete afterwards.
C15_NoCompletionAfterClosure ==
    [][\A n \in Steps : PendingAtClosure(n) => stepState'[n] # "resolved"]_vars

SessionEnded == session \in {"completed", "failed", "aborted"}

\* C16: once the session has ended and its executed steps have been disposed, none
\* of those steps has a timer pending or a listener registered on the connection,
\* on a channel or on a track.
C16_TeardownClean ==
    SessionEnded => \A n \in disposed : n \notin timers /\ NoListeners(n)

(***************************************************************************)
(* Listeners left behind by completed steps.                               *)
(***************************************************************************)
\* C17: at the moment a step is started, none of the steps before it in the script
\* has a listener registered on the connection, on a channel or on a track.
C17_NoTrailingListeners ==
    [][\A n \in Steps :
          (~Started(n) /\ stepState'[n] # "notstarted") =>
              \A m \in 1..(n - 1) :
                  /\ \A e \in Events : StepListenersOn(listeners'[e], m) = {}
                  /\ \A i \in DOMAIN channels' :
                        StepListenersOn(channels'[i].listeners, m) = {}
                  /\ \A i \in DOMAIN mediaTracks' :
                        StepListenersOn(mediaTracks'[i].listeners, m) = {}]_vars

(***************************************************************************)
(* Frame of the channel steps.                                             *)
(***************************************************************************)
\* the wait-for-message step n, which has a channelLabel, fires in this step
FiresFiltered(n) ==
    /\ script[n].type = "wait-for-message"
    /\ script[n].channelLabel # Undefined
    /\ stepState[n] = "pending"
    /\ stepState'[n] = "resolved"

\* C18: when a wait-for-message step with a channelLabel fires, every channel
\* matching its label is paused and the flowing state of every other channel is
\* what it was.
C18_PausesWatched ==
    [][\A n \in Steps :
          FiresFiltered(n) =>
              \A i \in DOMAIN channels :
                  IF WaitForMessageStep_matchesChannel(script[n], channels[i])
                  THEN channels'[i].flowing = "false"
                  ELSE channels'[i].flowing = channels[i].flowing]_vars

\* the writes of step n to channel i
WritesTo(n, i) == {w \in WritesOf(n) : writes[w].channel = i}

\* channel i was in the collection when step n started and passes its filter
MatchedAtStart(n, i) == i <= startInfo[n].channels /\ LabelOk(n, i)

\* C20: a started send-message step has written its message once to each channel
\* that was in the connection's collection when it started and matches its label,
\* and has written nothing to any other channel.
C20_WritesExactlyOnce ==
    \A n \in Steps :
        (script[n].type = "send-message" /\ Started(n)) =>
            /\ \A w \in WritesOf(n) : writes[w].message = script[n].message
            /\ \A i \in DOMAIN channels :
                  Cardinality(WritesTo(n, i)) = IF MatchedAtStart(n, i) THEN 1 ELSE 0

C20_Witness ==
    \E n \in Steps :
        /\ script[n].type = "send-message"
        /\ Started(n)
        /\ \E i, j \in DOMAIN channels :
              /\ MatchedAtStart(n, i)
              /\ Cardinality(WritesTo(n, i)) = 1
              /\ ~MatchedAtStart(n, j)
              /\ WritesTo(n, j) = {}

(***************************************************************************)
(* Echo.                                                                   *)
(***************************************************************************)
\* how many times the echoContent of step n has piped stream s to itself
PipedBy(s, n) == Cardinality({k \in DOMAIN s.pipes : s.pipes[k] = n})

\* C21: once an echo-channels step has started, every channel and every track of
\* the connection's collections, open when it started or opened since, has been
\* piped to itself by the step, once.
C21_EchoPipesOnce ==
    \A n \in Steps :
        (script[n].type = "echo-channels" /\ Started(n)) =>
            /\ \A i \in DOMAIN channels : PipedBy(channels[i], n) = 1
            /\ \A i \in DOMAIN mediaTracks : PipedBy(mediaTracks[i], n) = 1

C21_Witness ==
    \E n \in Steps :
        /\ script[n].type = "echo-channels"
        /\ stepState[n] = "pending"
        /\ \E i \in DOMAIN channels : i <= startInfo[n].channels /\ PipedBy(channels[i], n) = 1
        /\ \E i \in DOMAIN mediaTracks :
              i > startInfo[n].tracks /\ PipedBy(mediaTracks[i], n) = 1

(***************************************************************************)
(* Consecutive wait-for-message steps.                                     *)
(***************************************************************************)
\* the pending wait-for-message step n is subscribed to the data of channel i
Watching(n, i) ==
    /\ script[n].type = "wait-for-message"
    /\ stepState[n] = "pending"
    /\ StepListenersOn(channels[i].listeners, n) # {}

\* C22: when data arrives on a channel that a pending wait-for-message step is
\* subscribed to, the channel is flowing, so that the data is delivered to the
\* step: the pause of an earlier wait-for-message step does not starve it.
C22_NoStarvation ==
    [][\A n \in Steps : \A i \in DOMAIN channels :
          (Watching(n, i) /\ channels'[i].buffered > channels[i].buffered) =>
              channels'[i].flowing = "true"]_vars

=============================================================================
